---- MODULE Spec2Model ----
(***************************************************************************)
(* NvidiaGpuMonitor (index.js) with its collaborators NvidiaGpuInfo and    *)
(* GpuUtilizationSma: the monitor's lifecycle (start/stop), the supervised *)
(* "nvidia-smi dmon" child processes, the restart and watchdog timers and  *)
(* the line handler, as a state machine.                                   *)
(*                                                                         *)
(* Node.js runs one handler at a time, so every handler is one action.     *)
(* start() is the only handler that suspends (await parseGpuMetaData()),   *)
(* so it is split at the await.                                            *)
(***************************************************************************)
EXTENDS Integers, Sequences, FiniteSets, TLC

\* ------------------------------------------------------------------ bounds
\* At most MaxProcs watcher processes that are alive or about to be spawned
\* (pending restart timers, start() calls in flight) exist at any time.
MaxProcs == 2

\* ------------------------------------------------------- program constants
STATUS_STOPPED == 1
STATUS_STARTED == 2
STATUS_STOPPING == 3
DEFAULT_RESTART_TIMEOUT_MSEC == 1000

ERR_ALREADY_STARTED == "NvidiaGpuMonitor service is already started"
ERR_NOT_STARTED == "NvidiaGpuMonitor service is not started"

VARIABLES
    checkInterval,   \* this._checkInterval (seconds)
    status,          \* this._status
    healthy,         \* this._healthy
    healthyTimer,    \* this._healthyTimer and the timer it refers to
    restartTimer,    \* this._restartTimer and the timer it refers to
    strayRestarts,   \* pending restart timers whose handle was overwritten
    dmonWatcher,     \* this._dmonWatcher: slot of the last spawned child, 0 = undefined
    children,        \* the child processes spawned by the monitor
    commandRunned,   \* NvidiaGpuInfo._commandRunned
    microStarts,     \* start() calls suspended on an already settled parseGpuMetaData()
    config,          \* the policies chosen by the constructor
    infoCoreNumbers, \* NvidiaGpuInfo._coreNumbers
    totalMemory,     \* NvidiaGpuInfo._totalMemory
    coreNumbers,     \* this._coreNumbers
    tmpCoreNumbers,  \* this._tmpCoreNumbers
    gpuCoresMem,     \* this._gpuCoresMem
    gpuEncodersUtilization, \* this._gpuEncodersUtilization
    gpuDecodersUtilization, \* this._gpuDecodersUtilization
    gpuEncodersUsage,       \* this._gpuEncodersUsage
    gpuDecodersUsage,       \* this._gpuDecodersUsage
    encoderSma,      \* this._encoderUsageCalculator (GpuUtilizationSma)
    decoderSma,      \* this._decoderUsageCalculator (GpuUtilizationSma)
    isOverloaded,    \* this._isOverloaded
    statLastIndex,   \* STAT_GRAB_PATTERN.lastIndex
    last,            \* what the last handler did (observations for the properties)
    probe            \* a smoother or a policy predicate exercised on its own

lifeVars == <<status, healthy, healthyTimer, restartTimer, strayRestarts,
              dmonWatcher, children, commandRunned, microStarts>>
metaVars == <<infoCoreNumbers, totalMemory>>
dataVars == <<coreNumbers, tmpCoreNumbers, gpuCoresMem, gpuEncodersUtilization,
              gpuDecodersUtilization, gpuEncodersUsage, gpuDecodersUsage,
              encoderSma, decoderSma, isOverloaded, statLastIndex>>
vars == <<checkInterval, config, lifeVars, metaVars, dataVars, last, probe>>

Slots == 1..MaxProcs

\* No function is being exercised on its own.
NoProbe == [fn |-> "none"]
CheckIntervals == {1, 2}

\* A timer handle: "undefined" (no handle stored), "pending" (armed, not yet
\* fired) or "fired" (the handle is still stored but its timer has run).
NoTimer == [st |-> "undefined", ms |-> 0]
Armed(ms) == [st |-> "pending", ms |-> ms]

NoChild == [st |-> "dead", attached |-> FALSE]

\* What one handler run did. evals lists the overload predicates the last
\* sweep commit of the run evaluated, in order, with their results; hasRecord
\* tells whether the line handled holds a record, core the device of the
\* record the handler accepted (-1: none).
Eff(op) == [op |-> op, threw |-> "", emitted |-> <<>>, kills |-> 0, spawned |-> 0,
            parse |-> FALSE, accepted |-> FALSE, sweeps |-> 0, evals |-> <<>>,
            hasRecord |-> FALSE, core |-> -1, pre |-> status]

\* A child process is running (it may have been sent a kill already).
Running(c) == children[c].st \in {"alive", "killed"}
Live == {c \in Slots : children[c].st # "dead"}

\* Watcher processes that exist or are about to be spawned.
Tokens == Cardinality(Live) + strayRestarts
          + (IF restartTimer.st = "pending" THEN 1 ELSE 0)
          + (IF commandRunned THEN 1 ELSE 0) + microStarts

\* Continuations that run before the event loop takes the next I/O or timer
\* event: start() resumed by a settled promise, and the nextTick that reports
\* a failed spawn.
TickPending == microStarts > 0 \/ \E c \in Slots : children[c].st = "failed"

\* ------------------------------------------------------------ JS values
\* Numbers, undefined and NaN as the code can produce them in a memory sample.
JsNum(n) == [t |-> "number", v |-> n]
JsUndefined == [t |-> "undefined", v |-> 0]
JsNaN == [t |-> "NaN", v |-> 0]

\* a - b on JS values: anything but two numbers gives NaN.
JsMinus(a, b) == IF a.t = "number" /\ b.t = "number" THEN JsNum(a.v - b.v) ELSE JsNaN

\* a < n for a JS value a and a number n: undefined and NaN compare false.
JsLess(a, n) == a.t = "number" /\ a.v < n

\* An object without keys.
EmptyMap == [k \in {} |-> 0]

\* obj[k] = v
Put(obj, k, v) == [x \in DOMAIN obj \cup {k} |-> IF x = k THEN v ELSE obj[x]]

\* ------------------------------------------------- lib/GpuUtilizationSma.js
\* new GpuUtilizationSma(periodPoints): no device observed yet.
NewSma == [collection |-> EmptyMap, sum |-> EmptyMap]

\* getUsage's loop body shifting the full window without subtracting the
\* evicted value from the sum.
SmaObserve_NoSubtract(sma, periodPoints, coreId, v) ==
    LET coll1 == IF coreId \in DOMAIN sma.collection
                   THEN Append(sma.collection[coreId], v) ELSE <<v>>
        sum1 == IF coreId \in DOMAIN sma.collection
                  THEN sma.sum[coreId] + v ELSE v
        full == Len(coll1) = periodPoints
    IN [usage |-> IF full THEN sum1 \div periodPoints ELSE 100,
        sma |-> [collection |-> Put(sma.collection, coreId,
                                    IF full THEN Tail(coll1) ELSE coll1),
                 sum |-> Put(sma.sum, coreId, sum1)]]

\* getUsage's loop body without the shift of the full window.
SmaObserve_NoShift(sma, periodPoints, coreId, v) ==
    LET coll1 == IF coreId \in DOMAIN sma.collection
                   THEN Append(sma.collection[coreId], v) ELSE <<v>>
        sum1 == IF coreId \in DOMAIN sma.collection
                  THEN sma.sum[coreId] + v ELSE v
        full == Len(coll1) = periodPoints
    IN [usage |-> IF full THEN sum1 \div periodPoints ELSE 100,
        sma |-> [collection |-> Put(sma.collection, coreId, coll1),
                 sum |-> Put(sma.sum, coreId, sum1)]]

\* The body of getUsage's loop for one device: the calculator after the
\* observation v, and the value reported for the device.
SmaObserve(sma, periodPoints, coreId, v) ==
    LET coll1 == IF coreId \in DOMAIN sma.collection
                   THEN Append(sma.collection[coreId], v) ELSE <<v>>
        sum1 == IF coreId \in DOMAIN sma.collection
                  THEN sma.sum[coreId] + v ELSE v
        full == Len(coll1) = periodPoints
    IN [usage |-> IF full THEN sum1 \div periodPoints ELSE 100,
        sma |-> [collection |-> Put(sma.collection, coreId,
                                    IF full THEN Tail(coll1) ELSE coll1),
                 sum |-> Put(sma.sum, coreId,
                             IF full THEN sum1 - Head(coll1) ELSE sum1)]]

\* getUsage(gpuCoresUsage): the devices are independent of each other, so the
\* loop is folded over the keys in any order.
RECURSIVE SmaFold(_, _, _, _, _)
SmaFold(sma, periodPoints, gpuCoresUsage, keys, out) ==
    IF keys = {} THEN [usage |-> out, sma |-> sma]
    ELSE LET coreId == CHOOSE k \in keys : TRUE
             r == SmaObserve(sma, periodPoints, coreId, gpuCoresUsage[coreId])
         IN SmaFold(r.sma, periodPoints, gpuCoresUsage, keys \ {coreId},
                    Put(out, coreId, r.usage))

\* getUsage reporting the sentinel for every device seen before too.
getUsage_KnownKeysToo(sma, periodPoints, gpuCoresUsage) ==
    LET r == SmaFold(sma, periodPoints, gpuCoresUsage, DOMAIN gpuCoresUsage, EmptyMap)
    IN [usage |-> [k \in DOMAIN r.sma.collection |->
                      IF k \in DOMAIN r.usage THEN r.usage[k] ELSE 100],
        sma |-> r.sma]

getUsage(sma, periodPoints, gpuCoresUsage) ==
    SmaFold(sma, periodPoints, gpuCoresUsage, DOMAIN gpuCoresUsage, EmptyMap)

\* ------------------------------------------------------- overload policies
\* highWatermark is kept in percent: 75 stands for 0.75.
isMemOverloadedByIncorrectData(free, total) == JsLess(free, 0) \/ JsLess(total, 0)

\* The fixed threshold without the check for incorrect data.
isMemOverloadedByFixedThreshold_ThresholdOnly(minFree, coresMemCollection) ==
    \E coreNumber \in DOMAIN coresMemCollection :
        JsLess(coresMemCollection[coreNumber].free, minFree)

isMemOverloadedByFixedThreshold(minFree, coresMemCollection) ==
    \E coreNumber \in DOMAIN coresMemCollection :
        LET m == coresMemCollection[coreNumber]
        IN isMemOverloadedByIncorrectData(m.free, m.total) \/ JsLess(m.free, minFree)

\* ((total - free) / total) >= highWatermark
RateAbove_OrEqual(free, total, highWatermark) ==
    /\ free.t = "number" /\ total.t = "number"
    /\ IF total.v > 0 THEN (total.v - free.v) * 100 >= highWatermark * total.v
       ELSE IF total.v < 0 THEN (total.v - free.v) * 100 <= highWatermark * total.v
       ELSE total.v - free.v > 0

\* ((total - free) / total) > highWatermark, false when the quotient is NaN.
RateAbove(free, total, highWatermark) ==
    /\ free.t = "number" /\ total.t = "number"
    /\ IF total.v > 0 THEN (total.v - free.v) * 100 > highWatermark * total.v
       ELSE IF total.v < 0 THEN (total.v - free.v) * 100 < highWatermark * total.v
       ELSE total.v - free.v > 0

isMemOverloadedByRateThreshold(highWatermark, coresMemCollection) ==
    \E coreNumber \in DOMAIN coresMemCollection :
        LET m == coresMemCollection[coreNumber]
        IN isMemOverloadedByIncorrectData(m.free, m.total)
           \/ RateAbove(m.free, m.total, highWatermark)

\* (highWatermark * 100) <= usage
isGpuUsageOverloadByRateThreshold_OrEqual(highWatermark, coresUsageCollection) ==
    \E coreNumber \in DOMAIN coresUsageCollection :
        highWatermark <= coresUsageCollection[coreNumber]

isGpuUsageOverloadByRateThreshold(highWatermark, coresUsageCollection) ==
    \E coreNumber \in DOMAIN coresUsageCollection :
        highWatermark < coresUsageCollection[coreNumber]

\* this._isMemOverloaded as _initMemChecks binds it, applied to the memory map.
\* Under "none" the unbound two-argument predicate receives the map as `free`
\* and no `total`: an object and undefined both compare false with 0.
isMemOverloaded(mem, coresMemCollection) ==
    CASE mem.thresholdType = "fixed" ->
            isMemOverloadedByFixedThreshold(mem.minFree, coresMemCollection)
      [] mem.thresholdType = "rate" ->
            isMemOverloadedByRateThreshold(mem.highWatermark, coresMemCollection)
      [] OTHER -> FALSE

\* usageOverloadedChecker as _initCoreUtilizationChecks builds it.
isUsageOverloaded(cfg, coresUsageCollection) ==
    IF cfg.thresholdType = "rate"
      THEN isGpuUsageOverloadByRateThreshold(cfg.highWatermark, coresUsageCollection)
      ELSE FALSE

\* The configurations the monitor is constructed with.
SpecConfigs ==
    {[mem |-> [thresholdType |-> "rate", minFree |-> 1, highWatermark |-> 50],
      encoder |-> [calculationAlgo |-> "sma", periodPoints |-> 2,
                   thresholdType |-> "rate", highWatermark |-> 50],
      decoder |-> [calculationAlgo |-> "sma", periodPoints |-> 2,
                   thresholdType |-> "none", highWatermark |-> 50]]}


\* ------------------------------------------------------------------ inputs
\* What "nvidia-smi -q" prints: the devices and the total memory (MiB) of each.
MetaOutputs == {[cores |-> {0}, total |-> 2]}

\* A line of "nvidia-smi dmon" output as STAT_GRAB_PATTERN sees it: no match
\* (header, comment, garbage) or the captured columns of the record, which
\* begins at index `at` of the line (after the leading blanks) and ends
\* before index `end`.
NoMatchLine == [match |-> FALSE, at |-> 0, end |-> 0,
                core |-> 0, used |-> 0, enc |-> 0, dec |-> 0]
DataLine(core, used, enc, dec) ==
    [match |-> TRUE, at |-> 1, end |-> 2,
     core |-> core, used |-> used, enc |-> enc, dec |-> dec]
SpecLines == {NoMatchLine, DataLine(0, 1, 40, 40)}

\* ------------------------------------------------------ NvidiaGpuInfo.js
\* getTotalMemory(coreNumber): undefined for a device the metadata lacks.
getTotalMemory(coreNumber) ==
    IF coreNumber \in DOMAIN totalMemory THEN JsNum(totalMemory[coreNumber])
    ELSE JsUndefined

\* getCoreNumbers(): the devices of the metadata (what start() resolves with).
getCoreNumbers == infoCoreNumbers

\* The loop of parseGpuMetaData over the command's output: devices are added
\* to _coreNumbers and their total memory is overwritten.
ParsedCoreNumbers(out) == infoCoreNumbers \cup out.cores
ParsedTotalMemory(out) ==
    [c \in DOMAIN totalMemory \cup out.cores |->
        IF c \in out.cores THEN out.total ELSE totalMemory[c]]

\* ------------------------------------------------------------ the watcher
\* spawn(): the new child takes the lowest free slot.
FreeSlot == CHOOSE c \in Slots :
                children[c].st = "dead" /\ \A d \in Slots : children[d].st = "dead" => c <= d

\* _runNvidiaSmiWatcher(): spawn the child and listen to it. ok = FALSE is a
\* spawn that fails (the child reports 'error' on the next tick, never 'exit').
runNvidiaSmiWatcher(ok) ==
    /\ children' = [children EXCEPT ![FreeSlot] =
                       [st |-> IF ok THEN "alive" ELSE "failed", attached |-> TRUE]]
    /\ dmonWatcher' = FreeSlot

\* this._dmonWatcher.kill() on the children ch: a running child is signalled,
\* a child that failed to spawn or is gone is not.
Kill(ch) ==
    IF dmonWatcher # 0 /\ ch[dmonWatcher].st = "alive"
      THEN [ch EXCEPT ![dmonWatcher].st = "killed"]
      ELSE ch

\* ------------------------------------------------------------- start()
\* start() guarded as in the first releases: only a started monitor throws.
StartRejects_OnlyStarted(s) == s = STATUS_STARTED

\* The guard of start(): it throws unless the monitor is stopped.
StartRejects(s) == s # STATUS_STOPPED

\* parseGpuMetaData() without its guard.
ParseReturnsAtOnce_Never(running) == FALSE

\* The guard of parseGpuMetaData(): it returns at once while a command runs.
ParseReturnsAtOnce(running) == running

\* start() up to its await. parseGpuMetaData() either returns at once (a
\* command is already running) or starts the command.
Start ==
    IF StartRejects(status)
      THEN /\ last' = [Eff("start") EXCEPT !.threw = ERR_ALREADY_STARTED]
           /\ UNCHANGED <<probe, checkInterval, config, lifeVars, metaVars, dataVars>>
      ELSE /\ Tokens < MaxProcs
           /\ IF ParseReturnsAtOnce(commandRunned)
                THEN microStarts' = microStarts + 1 /\ UNCHANGED commandRunned
                ELSE commandRunned' = TRUE /\ UNCHANGED microStarts
           /\ last' = [Eff("start") EXCEPT !.parse = TRUE]
           /\ UNCHANGED <<probe, checkInterval, config, status, healthy, healthyTimer,
                          restartTimer, strayRestarts, dmonWatcher, children,
                          metaVars, dataVars>>

\* start() after its await: run the watcher, mark healthy and started.
StartTail(ok) ==
    /\ runNvidiaSmiWatcher(ok)
    /\ healthy' = TRUE
    /\ status' = STATUS_STARTED

\* The command of parseGpuMetaData() succeeded with output out: the metadata
\* is parsed and the start() that awaited it continues.
StartResolve(out, ok) ==
    /\ commandRunned
    /\ ~TickPending
    /\ commandRunned' = FALSE
    /\ infoCoreNumbers' = ParsedCoreNumbers(out)
    /\ totalMemory' = ParsedTotalMemory(out)
    /\ StartTail(ok)
    /\ last' = [Eff("startResolve") EXCEPT !.spawned = 1]
    /\ UNCHANGED <<probe, checkInterval, config, healthyTimer, restartTimer, strayRestarts,
                   microStarts, dataVars>>

\* The command failed: parseGpuMetaData() rethrows and start() rejects.
StartReject ==
    /\ commandRunned
    /\ ~TickPending
    /\ commandRunned' = FALSE
    /\ last' = [Eff("startReject") EXCEPT !.threw = "command failed"]
    /\ UNCHANGED <<probe, checkInterval, config, status, healthy, healthyTimer, restartTimer,
                   strayRestarts, dmonWatcher, children, microStarts, metaVars, dataVars>>

\* A start() whose parseGpuMetaData() returned at once continues.
StartMicro(ok) ==
    /\ microStarts > 0
    /\ microStarts' = microStarts - 1
    /\ StartTail(ok)
    /\ last' = [Eff("startMicro") EXCEPT !.spawned = 1]
    /\ UNCHANGED <<probe, checkInterval, config, healthyTimer, restartTimer, strayRestarts,
                   commandRunned, metaVars, dataVars>>

\* -------------------------------------------------------------- stop()
\* Which branch stop() takes on a monitor that is not stopped: TRUE cancels
\* the restart and finalizes, FALSE kills the watcher.
StopCancelsRestart(timer) == timer.st # "undefined"

\* stop() without its guard.
StopReturns_Never(s) == FALSE

\* The guard of stop(): it returns at once on a stopped monitor.
StopReturns(s) == s = STATUS_STOPPED

Stop ==
    IF StopReturns(status)
      THEN /\ last' = Eff("stop")
           /\ UNCHANGED <<probe, checkInterval, config, lifeVars, metaVars, dataVars>>
      ELSE /\ healthyTimer' = NoTimer
           /\ healthy' = FALSE
           /\ IF StopCancelsRestart(restartTimer)
                THEN /\ restartTimer' = NoTimer
                     /\ status' = STATUS_STOPPED
                     /\ last' = [Eff("stop") EXCEPT !.emitted = <<"stopped">>]
                     /\ UNCHANGED children
                ELSE /\ status' = STATUS_STOPPING
                     /\ children' = Kill(children)
                     /\ last' = [Eff("stop") EXCEPT !.kills = 1]
                     /\ UNCHANGED restartTimer
           /\ UNCHANGED <<probe, checkInterval, config, strayRestarts, dmonWatcher,
                          commandRunned, microStarts, metaVars, dataVars>>


\* ------------------------------------------------------ child 'error'
\* A spawn failure handled like an exit: a restart is scheduled.
ChildError_AsExit(c) ==
    /\ children[c].st = "failed"
    /\ children' = [children EXCEPT ![c] = NoChild]
    /\ healthy' = FALSE
    /\ restartTimer' = Armed(DEFAULT_RESTART_TIMEOUT_MSEC)
    /\ last' = [Eff("error") EXCEPT !.emitted = <<"error", "unhealthy">>]
    /\ UNCHANGED <<probe, checkInterval, config, status, healthyTimer,
                   strayRestarts, dmonWatcher, commandRunned, microStarts,
                   metaVars, dataVars>>

\* _watcherErrorHandler(err)
ChildError(c) ==
    /\ children[c].st = "failed"
    /\ children' = [children EXCEPT ![c] = NoChild]
    /\ healthy' = FALSE
    /\ last' = [Eff("error") EXCEPT !.emitted = <<"error", "unhealthy">>]
    /\ UNCHANGED <<probe, checkInterval, config, status, healthyTimer, restartTimer,
                   strayRestarts, dmonWatcher, commandRunned, microStarts,
                   metaVars, dataVars>>

\* ------------------------------------------------------- child 'exit'
\* _watcherExitHandler testing for the wrong status.
ExitFinalizes_WhenStopped(s) == s = STATUS_STOPPED
ExitFinalizes_UnlessStopped(s) == s # STATUS_STOPPED

\* The branch of _watcherExitHandler: TRUE finalizes a requested stop, FALSE
\* schedules a restart.
ExitFinalizes(s) == s = STATUS_STOPPING

\* The delay of the restart timer.
RestartDelay == DEFAULT_RESTART_TIMEOUT_MSEC

\* _watcherExitHandler(code, signal), run when child c exits (on its own or
\* killed). The handler tears down the streams of this._dmonWatcher, which is
\* the last spawned child, not necessarily c.
ChildExit(c) ==
    /\ Running(c)
    /\ ~TickPending
    /\ healthy' = FALSE
    /\ children' = [d \in Slots |->
                      IF d = c THEN NoChild
                      ELSE IF d = dmonWatcher /\ children[d].st # "dead"
                        THEN [children[d] EXCEPT !.attached = FALSE]
                      ELSE children[d]]
    /\ IF ExitFinalizes(status)
         THEN /\ status' = STATUS_STOPPED
              /\ last' = [Eff("exit") EXCEPT !.emitted = <<"stopped">>]
              /\ UNCHANGED <<restartTimer, strayRestarts>>
         ELSE /\ restartTimer' = Armed(RestartDelay)
              /\ strayRestarts' = strayRestarts
                                  + (IF restartTimer.st = "pending" THEN 1 ELSE 0)
              /\ last' = [Eff("exit") EXCEPT !.emitted = <<"error", "unhealthy">>]
              /\ UNCHANGED status
    /\ UNCHANGED <<probe, checkInterval, config, healthyTimer, dmonWatcher, commandRunned,
                   microStarts, metaVars, dataVars>>

\* ----------------------------------------------------- restart timer
\* A pending restart timer fires: _runNvidiaSmiWatcher(). The handle stays in
\* this._restartTimer. stray = TRUE is a timer whose handle was overwritten.
RestartFire(stray, ok) ==
    /\ ~TickPending
    /\ IF stray
         THEN /\ strayRestarts > 0
              /\ strayRestarts' = strayRestarts - 1
              /\ UNCHANGED restartTimer
         ELSE /\ restartTimer.st = "pending"
              /\ restartTimer' = [restartTimer EXCEPT !.st = "fired"]
              /\ UNCHANGED strayRestarts
    /\ runNvidiaSmiWatcher(ok)
    /\ last' = [Eff("restart") EXCEPT !.spawned = 1]
    /\ UNCHANGED <<probe, checkInterval, config, status, healthy, healthyTimer,
                   commandRunned, microStarts, metaVars, dataVars>>

\* ---------------------------------------------------- watchdog timer
\* A watchdog that waits one sampling interval only.
WatchdogDelay_OneInterval == checkInterval * 1000

\* The timeout of the watchdog timer in ms.
WatchdogDelay == checkInterval * 2 * 1000

\* The callback of this._healthyTimer.
WatchdogFire ==
    /\ ~TickPending
    /\ healthyTimer.st = "pending"
    /\ healthyTimer' = [healthyTimer EXCEPT !.st = "fired"]
    /\ healthy' = FALSE
    /\ last' = [Eff("watchdog") EXCEPT !.emitted = <<"unhealthy">>]
    /\ UNCHANGED <<probe, checkInterval, config, status, restartTimer, strayRestarts,
                   dmonWatcher, children, commandRunned, microStarts,
                   metaVars, dataVars>>

\* ------------------------------------------------------ line handler
\* The monitor's sample state as one record.
Data == [coreNumbers |-> coreNumbers, tmpCoreNumbers |-> tmpCoreNumbers,
         gpuCoresMem |-> gpuCoresMem,
         gpuEncodersUtilization |-> gpuEncodersUtilization,
         gpuDecodersUtilization |-> gpuDecodersUtilization,
         gpuEncodersUsage |-> gpuEncodersUsage,
         gpuDecodersUsage |-> gpuDecodersUsage,
         encoderSma |-> encoderSma, decoderSma |-> decoderSma,
         isOverloaded |-> isOverloaded, sweeps |-> 0, evals |-> <<>>]

\* One evaluated overload predicate and its result.
Eval(p, v) == [p |-> p, v |-> v]

\* The chain "memory || encoder" that forgets the decoder.
ShortCircuitOr_NoDecoder(m, e, d) ==
    IF m THEN <<Eval("mem", TRUE)>>
    ELSE <<Eval("mem", FALSE), Eval("encoder", e)>>

\* this._isMemOverloaded(..) || this._isEncoderOverloaded(..)
\* || this._isDecoderOverloaded(..): the operands that get evaluated, in
\* order; the value of the chain is the value of the last one.
ShortCircuitOr(m, e, d) ==
    IF m THEN <<Eval("mem", TRUE)>>
    ELSE IF e THEN <<Eval("mem", FALSE), Eval("encoder", TRUE)>>
    ELSE <<Eval("mem", FALSE), Eval("encoder", FALSE), Eval("decoder", d)>>

\* _processCoresStatistic()
processCoresStatistic(d) ==
    LET enc == getUsage(d.encoderSma, config.encoder.periodPoints,
                        d.gpuEncodersUtilization)
        dec == getUsage(d.decoderSma, config.decoder.periodPoints,
                        d.gpuDecodersUtilization)
        evals == ShortCircuitOr(isMemOverloaded(config.mem, d.gpuCoresMem),
                                isUsageOverloaded(config.encoder, enc.usage),
                                isUsageOverloaded(config.decoder, dec.usage))
    IN [d EXCEPT !.gpuEncodersUsage = enc.usage, !.encoderSma = enc.sma,
                 !.gpuDecodersUsage = dec.usage, !.decoderSma = dec.sma,
                 !.gpuEncodersUtilization = EmptyMap,
                 !.gpuDecodersUtilization = EmptyMap,
                 !.isOverloaded = evals[Len(evals)].v,
                 !.evals = evals,
                 !.sweeps = d.sweeps + 1]

\* this._coreNumbers = this._tmpCoreNumbers; this._tmpCoreNumbers = new Set();
\* this._processCoresStatistic();
CommitSweep(d) ==
    processCoresStatistic([d EXCEPT !.coreNumbers = d.tmpCoreNumbers,
                                    !.tmpCoreNumbers = {}])

\* A cycle that is committed only when a device repeats.
SweepComplete_OnRepeatOnly(size, length) == FALSE

\* this._tmpCoreNumbers.size === this._nvidiaGpuInfo.getCoreNumbers().length
SweepComplete(size, length) == size = length

\* The sample part of _processGpuCoreInfo for a line that matched.
AcceptSample(d, line) ==
    LET coreNumber == line.core
        totalMem == getTotalMemory(coreNumber)
        d1 == [d EXCEPT !.gpuCoresMem =
                  Put(d.gpuCoresMem, coreNumber,
                      [total |-> totalMem, free |-> JsMinus(totalMem, JsNum(line.used))])]
        d2 == IF coreNumber \in d1.tmpCoreNumbers THEN CommitSweep(d1) ELSE d1
        d3 == [d2 EXCEPT !.gpuEncodersUtilization =
                            Put(d2.gpuEncodersUtilization, coreNumber, line.enc),
                         !.gpuDecodersUtilization =
                            Put(d2.gpuDecodersUtilization, coreNumber, line.dec),
                         !.tmpCoreNumbers = d2.tmpCoreNumbers \cup {coreNumber}]
    IN IF SweepComplete(Cardinality(d3.tmpCoreNumbers), Cardinality(infoCoreNumbers))
         THEN CommitSweep(d3) ELSE d3

\* 'healthy' emitted for every accepted sample.
EmitsHealthy_EverySample(matched, h) == matched

\* Whether the line handler sets healthy and emits 'healthy': the line
\* matched and the monitor was not healthy.
EmitsHealthy(matched, h) == matched /\ ~h

\* The watchdog armed for records only.
RearmsWatchdog_OnMatchOnly(matched) == matched

\* Whether the handler arms the watchdog timer at its end: it does for every
\* line, the setTimeout follows the if.
RearmsWatchdog(matched) == TRUE

\* The cursor kept after a match.
CursorAfterMatch_NoReset(end) == end

\* STAT_GRAB_PATTERN.lastIndex = 0 after a match that ended at index end
CursorAfterMatch(end) == 0

\* STAT_GRAB_PATTERN.exec(coreInfo): the pattern is global, so the search
\* begins at lastIndex; a match leaves lastIndex at its end, a failure at 0.
StatExec(line, lastIndex) ==
    IF line.match /\ line.at >= lastIndex
      THEN [matched |-> TRUE, lastIndex |-> line.end]
      ELSE [matched |-> FALSE, lastIndex |-> 0]

\* _processGpuCoreInfo(coreInfo) for line
processGpuCoreInfo(line) ==
    \E r \in {StatExec(line, statLastIndex)} :
    \E d \in {IF r.matched THEN AcceptSample(Data, line) ELSE Data} :
    LET becameHealthy == EmitsHealthy(r.matched, healthy)
    IN /\ statLastIndex' = (IF r.matched THEN CursorAfterMatch(r.lastIndex)
                                         ELSE r.lastIndex)
       /\ coreNumbers' = d.coreNumbers
       /\ tmpCoreNumbers' = d.tmpCoreNumbers
       /\ gpuCoresMem' = d.gpuCoresMem
       /\ gpuEncodersUtilization' = d.gpuEncodersUtilization
       /\ gpuDecodersUtilization' = d.gpuDecodersUtilization
       /\ gpuEncodersUsage' = d.gpuEncodersUsage
       /\ gpuDecodersUsage' = d.gpuDecodersUsage
       /\ encoderSma' = d.encoderSma
       /\ decoderSma' = d.decoderSma
       /\ isOverloaded' = d.isOverloaded
       /\ healthy' = (healthy \/ becameHealthy)
       /\ healthyTimer' = (IF RearmsWatchdog(r.matched) THEN Armed(WatchdogDelay)
                                                       ELSE NoTimer)
       /\ last' = [Eff("line") EXCEPT
                      !.accepted = r.matched,
                      !.hasRecord = line.match,
                      !.core = IF r.matched THEN line.core ELSE -1,
                      !.sweeps = d.sweeps,
                      !.evals = d.evals,
                      !.emitted = IF becameHealthy THEN <<"healthy">> ELSE <<>>]

\* A running child whose stdout is still listened to prints a line.
ChildLine(c, line) ==
    /\ Running(c)
    /\ children[c].attached
    /\ ~TickPending
    /\ processGpuCoreInfo(line)
    /\ UNCHANGED <<probe, checkInterval, config, status, restartTimer, strayRestarts,
                   dmonWatcher, children, commandRunned, microStarts, metaVars>>

\* ---------------------------------------------------------- queries
\* The query methods throwing unless the monitor is started.
QueryRejects_UnlessStarted(s) == s # STATUS_STARTED

\* The guard every query method begins with: it throws on a stopped monitor.
QueryRejects(s) == s = STATUS_STOPPED

\* isWatchHealthy(): what it throws ("" = nothing) and what it returns.
isWatchHealthy ==
    IF QueryRejects(status)
      THEN [threw |-> ERR_NOT_STARTED, value |-> FALSE]
      ELSE [threw |-> "", value |-> healthy]

\* getGpuStatistic() past its guard: for each device of this._coreNumbers its
\* mem.free, usage.enc and usage.dec (undefined where the map has no entry).
getGpuStatistic ==
    [coreNumber \in coreNumbers |->
        [free |-> IF coreNumber \in DOMAIN gpuCoresMem
                    THEN gpuCoresMem[coreNumber].free ELSE JsUndefined,
         enc |-> IF coreNumber \in DOMAIN gpuEncodersUsage
                   THEN JsNum(gpuEncodersUsage[coreNumber]) ELSE JsUndefined,
         dec |-> IF coreNumber \in DOMAIN gpuDecodersUsage
                   THEN JsNum(gpuDecodersUsage[coreNumber]) ELSE JsUndefined]]

\* The query methods of the monitor.
Queries == {"getGpuStatistic", "isOverloaded", "isWatchHealthy",
            "getGpuDriverVersion", "getGpuProductsName"}

\* A call of the query method q. Past the guard only getGpuStatistic() can
\* fail, reading .free of a device without a memory sample.
Query(q) ==
    /\ last' = [Eff(q) EXCEPT !.threw =
                   IF QueryRejects(status) THEN ERR_NOT_STARTED
                   ELSE IF q = "getGpuStatistic"
                           /\ \E coreNumber \in coreNumbers :
                                  coreNumber \notin DOMAIN gpuCoresMem
                     THEN "TypeError"
                   ELSE ""]
    /\ UNCHANGED <<probe, checkInterval, config, lifeVars, metaVars, dataVars>>

\* The monitor as its constructor leaves it.
Constructed ==
    /\ checkInterval \in CheckIntervals
    /\ status = STATUS_STOPPED
    /\ healthy = FALSE
    /\ healthyTimer = NoTimer
    /\ restartTimer = NoTimer
    /\ strayRestarts = 0
    /\ dmonWatcher = 0
    /\ children = [c \in Slots |-> NoChild]
    /\ commandRunned = FALSE
    /\ microStarts = 0
    /\ infoCoreNumbers = {}
    /\ totalMemory = EmptyMap
    /\ coreNumbers = {}
    /\ tmpCoreNumbers = {}
    /\ gpuCoresMem = EmptyMap
    /\ gpuEncodersUtilization = EmptyMap
    /\ gpuDecodersUtilization = EmptyMap
    /\ gpuEncodersUsage = EmptyMap
    /\ gpuDecodersUsage = EmptyMap
    /\ encoderSma = NewSma
    /\ decoderSma = NewSma
    /\ isOverloaded = TRUE
    /\ statLastIndex = 0
    /\ last = [Eff("init") EXCEPT !.pre = STATUS_STOPPED]

Init ==
    /\ Constructed
    /\ config \in SpecConfigs
    /\ probe = NoProbe

Next ==
    \/ Start
    \/ \E out \in MetaOutputs, ok \in BOOLEAN : StartResolve(out, ok)
    \/ StartReject
    \/ \E ok \in BOOLEAN : StartMicro(ok)
    \/ Stop
    \/ \E c \in Slots : ChildError(c)
    \/ \E c \in Slots : ChildExit(c)
    \/ \E stray \in BOOLEAN, ok \in BOOLEAN : RestartFire(stray, ok)
    \/ WatchdogFire
    \/ \E c \in Slots, line \in SpecLines : ChildLine(c, line)
    \/ \E q \in Queries : Query(q)

Spec == Init /\ [][Next]_vars

\* What the platform guarantees to happen: continuations and ticks run, the
\* metadata command ends, armed timers fire, and a child that was sent a kill
\* exits. A child may run and stay silent forever, and the caller need not
\* call anything.
Fairness ==
    /\ WF_vars(\E ok \in BOOLEAN : StartMicro(ok))
    /\ WF_vars(\E c \in Slots : ChildError(c))
    /\ WF_vars((\E out \in MetaOutputs, ok \in BOOLEAN : StartResolve(out, ok)) \/ StartReject)
    /\ WF_vars(\E stray \in BOOLEAN, ok \in BOOLEAN : RestartFire(stray, ok))
    /\ SF_vars(WatchdogFire)
    /\ WF_vars(\E c \in Slots : children[c].st = "killed" /\ ChildExit(c))

FairSpec == Spec /\ Fairness

TypeOK ==
    /\ status \in {STATUS_STOPPED, STATUS_STARTED, STATUS_STOPPING}
    /\ healthy \in BOOLEAN
    /\ dmonWatcher \in 0..MaxProcs
    /\ Tokens <= MaxProcs

\* --------------------------------------------------- the sample path
\* One start() and then the lines of one healthy watcher, for two devices,
\* each memory policy and lines of known and unknown devices, with memory
\* use below and above the total.
DataConfigs ==
    {[mem |-> [thresholdType |-> t, minFree |-> 1, highWatermark |-> 50],
      encoder |-> [calculationAlgo |-> "sma", periodPoints |-> 2,
                   thresholdType |-> "rate", highWatermark |-> 50],
      decoder |-> [calculationAlgo |-> "sma", periodPoints |-> 2,
                   thresholdType |-> "rate", highWatermark |-> 50]] :
        t \in {"none", "fixed", "rate"}}

DataMetaOutputs == {[cores |-> {0, 1}, total |-> 2]}

DataLines ==
    {NoMatchLine, DataLine(2, 1, 20, 20)}
    \cup {DataLine(core, used, u[1], u[2]) :
            core \in {0, 1}, used \in {1, 3},
            u \in {<<20, 20>>, <<90, 20>>, <<20, 90>>}}

DataInit ==
    /\ Constructed
    /\ checkInterval = 1
    /\ config \in DataConfigs
    /\ probe = NoProbe

DataNext ==
    \/ Start
    \/ \E out \in DataMetaOutputs : StartResolve(out, TRUE)
    \/ \E c \in Slots, line \in DataLines : ChildLine(c, line)

DataSpec == DataInit /\ [][DataNext]_vars

\* ------------------------------- the smoother and the policies on their own
\* GpuUtilizationSma.getUsage and the overload predicates are functions of
\* their arguments (and, for the smoother, of the calculator's own state), so
\* they are also exercised directly, on more inputs than the watcher feeds
\* them: PureSpec starts from a chosen function and input and applies it.

\* At most MaxObs observations are fed to the smoother for one device key.
MaxObs == 4

ProbeKeys == {0, 1}

\* Memory samples {free, total}: plain, at the thresholds, with the -1 of an
\* unreadable value, and the NaN/undefined pair of a device without metadata.
MemSamples ==
    {[free |-> JsNum(5), total |-> JsNum(10)],
     [free |-> JsNum(6), total |-> JsNum(10)],
     [free |-> JsNum(8), total |-> JsNum(10)],
     [free |-> JsNum(2), total |-> JsNum(10)],
     [free |-> JsNum(0 - 1), total |-> JsNum(0 - 1)],
     [free |-> JsNum(8), total |-> JsNum(0 - 1)],
     [free |-> JsNaN, total |-> JsUndefined]}
MemMaps == UNION {[ks -> MemSamples] : ks \in SUBSET ProbeKeys}
MemConfigs ==
    {[thresholdType |-> "fixed", minFree |-> 6, highWatermark |-> 50],
     [thresholdType |-> "rate", minFree |-> 6, highWatermark |-> 50],
     [thresholdType |-> "none", minFree |-> 6, highWatermark |-> 50]}

\* Smoothed percentages, around the watermark and the sentinel 100.
UsageSamples == {0, 50, 51, 100}
UsageMaps == UNION {[ks -> UsageSamples] : ks \in SUBSET ProbeKeys}
UsageConfigs ==
    {[calculationAlgo |-> "sma", periodPoints |-> 2,
      thresholdType |-> t, highWatermark |-> 50] : t \in {"rate", "none"}}

\* Raw utilization maps handed to getUsage, and the periods of the smoother.
RawValues == {10, 70}
RawMaps == UNION {[ks -> RawValues] : ks \in SUBSET ProbeKeys}
SmaConfigs ==
    {[calculationAlgo |-> "sma", periodPoints |-> n,
      thresholdType |-> "none", highWatermark |-> 50] : n \in {2, 3}}

\* ------------------------------------------------------- the constructor
\* Arguments of the constructor. A number is JsNum (highWatermark in percent),
\* a number that is not an integer has the tag "fraction", a missing field is
\* JsUndefined; obj tells whether mem, encoder or decoder is an object at all.
JsFraction == [t |-> "fraction", v |-> 1]
isSafeInteger(x) == x.t = "number"
isFinite(x) == x.t \in {"number", "fraction"}

\* _initMemChecks(mem) throws its TypeError
initMemChecksThrows(mem) ==
    IF ~mem.obj THEN TRUE
    ELSE IF mem.thresholdType = "fixed"
      THEN ~isSafeInteger(mem.minFree) \/ mem.minFree.v <= 0
    ELSE IF mem.thresholdType = "rate"
      THEN \/ ~isFinite(mem.highWatermark)
           \/ mem.highWatermark.v <= 0 \/ mem.highWatermark.v >= 100
    ELSE mem.thresholdType # "none"

\* The check of periodPoints letting a period of 1 pass.
PeriodPointsRejected_BelowOne(periodPoints) ==
    ~isSafeInteger(periodPoints) \/ periodPoints.v < 1

\* !Number.isSafeInteger(config.periodPoints) || config.periodPoints <= 1
PeriodPointsRejected(periodPoints) ==
    ~isSafeInteger(periodPoints) \/ periodPoints.v <= 1

\* _initCoreUtilizationChecks(config, ..) throws its TypeError
initCoreUtilizationChecksThrows(cfg) ==
    IF ~cfg.obj THEN TRUE
    ELSE IF cfg.calculationAlgo = "sma" /\ PeriodPointsRejected(cfg.periodPoints)
      THEN TRUE
    ELSE IF cfg.calculationAlgo \notin {"sma", "last_value"} THEN TRUE
    ELSE IF cfg.thresholdType = "rate"
      THEN \/ ~isFinite(cfg.highWatermark)
           \/ cfg.highWatermark.v <= 0 \/ cfg.highWatermark.v >= 100
    ELSE cfg.thresholdType # "none"

\* new NvidiaGpuMonitor(args) throws a TypeError (every throw of the
\* constructor is one).
constructorThrows(args) ==
    \/ ~args.nvidiaSmiPathIsString
    \/ ~isSafeInteger(args.checkIntervalSec) \/ args.checkIntervalSec.v < 1
    \/ initMemChecksThrows(args.mem)
    \/ initCoreUtilizationChecksThrows(args.encoder)
    \/ initCoreUtilizationChecksThrows(args.decoder)

CtorMems ==
    {[obj |-> FALSE, thresholdType |-> "none", minFree |-> JsUndefined,
      highWatermark |-> JsUndefined]}
    \cup [obj : {TRUE}, thresholdType : {"fixed", "rate", "none", "other"},
          minFree : {JsNum(0), JsNum(1), JsFraction},
          highWatermark : {JsNum(0), JsNum(50), JsNum(100)}]
CtorUsages ==
    {[obj |-> FALSE, calculationAlgo |-> "sma", periodPoints |-> JsUndefined,
      thresholdType |-> "none", highWatermark |-> JsUndefined]}
    \cup [obj : {TRUE}, calculationAlgo : {"sma", "last_value", "other"},
          periodPoints : {JsNum(1), JsNum(2)},
          thresholdType : {"rate", "none", "other"},
          highWatermark : {JsNum(0), JsNum(50), JsNum(100)}]
CtorValidUsage ==
    [obj |-> TRUE, calculationAlgo |-> "sma", periodPoints |-> JsNum(2),
     thresholdType |-> "none", highWatermark |-> JsNum(50)]
CtorArgs ==
    {[nvidiaSmiPathIsString |-> p, checkIntervalSec |-> i, mem |-> m,
      encoder |-> u[1], decoder |-> u[2]] :
        p \in BOOLEAN, i \in {JsNum(0), JsNum(1)}, m \in CtorMems,
        u \in ({CtorValidUsage} \X CtorUsages) \cup (CtorUsages \X {CtorValidUsage})}

\* ------------------------------------------- the patterns of the metadata
\* What "nvidia-smi -q" prints as DRIVER_VERSION_GRAB_PATTERN and
\* DATA_GRAB_PATTERN see it: the Driver Version line, if any, and the device
\* blocks in the order of the text, each with the index it begins at and the
\* index behind its end.
NoDriverLine == [match |-> FALSE, at |-> 0, end |-> 0, version |-> ""]
DriverLine == [match |-> TRUE, at |-> 1, end |-> 2, version |-> "384.111"]
DeviceBlock(n) == [at |-> 3 + 2 * n, end |-> 4 + 2 * n, core |-> n,
                   name |-> "Tesla M60", total |-> 2]
MetaTexts ==
    [driver : {NoDriverLine, DriverLine},
     devices : {<<>>, <<DeviceBlock(0)>>, <<DeviceBlock(0), DeviceBlock(1)>>}]

\* A driver version: undefined or the captured text.
NoVersion == [t |-> "undefined", v |-> ""]
Version(v) == [t |-> "string", v |-> v]

\* new NvidiaGpuInfo(): no metadata yet.
NewInfo == [driverVersion |-> NoVersion, coreNumbers |-> {},
            productNames |-> EmptyMap, totalMemory |-> EmptyMap]

\* DRIVER_VERSION_GRAB_PATTERN.exec(text) with the pattern's cursor at
\* lastIndex: the pattern is global, so the search begins at the cursor, a
\* match leaves the cursor behind it and a failure resets it to 0.
DriverExec(text, lastIndex) ==
    IF text.driver.match /\ text.driver.at >= lastIndex
      THEN [version |-> Version(text.driver.version), lastIndex |-> text.driver.end]
      ELSE [version |-> NoVersion, lastIndex |-> 0]

\* while ((matchResult = DATA_GRAB_PATTERN.exec(text)) !== null) { .. }: the
\* blocks from the cursor on are stored one after the other; the failing
\* exec that ends the loop resets the cursor to 0.
RECURSIVE DataLoop(_, _, _)
DataLoop(text, lastIndex, info) ==
    LET later == {i \in 1..Len(text.devices) : text.devices[i].at >= lastIndex}
    IN IF later = {} THEN [info |-> info, lastIndex |-> 0]
       ELSE LET i == CHOOSE j \in later : \A k \in later : j <= k
                b == text.devices[i]
            IN DataLoop(text, b.end,
                        [info EXCEPT
                            !.coreNumbers = @ \cup {b.core},
                            !.productNames = Put(@, b.core, b.name),
                            !.totalMemory = Put(@, b.core, b.total)])

\* parseGpuMetaData() after its command has printed text: the NvidiaGpuInfo
\* and the cursors of the two patterns after the call.
parseGpuMetaData(text, info, lastIndex) ==
    LET r == DataLoop(text, lastIndex.data, info)
        d == DriverExec(text, lastIndex.driver)
    IN [info |-> [r.info EXCEPT !.driverVersion = d.version],
        lastIndex |-> [data |-> r.lastIndex, driver |-> d.lastIndex]]

\* fn: the function exercised; cfg: the configuration it was built from;
\* coll: its (last) argument; result: what the predicate returned; sma, usage:
\* the calculator and what getUsage returned; hist: every raw value a key was
\* observed with, oldest first; info, lastIndex: the NvidiaGpuInfo and the
\* cursors of the metadata patterns.
Probe(fn, cfg, coll) ==
    [fn |-> fn, cfg |-> cfg, coll |-> coll, done |-> FALSE, result |-> FALSE,
     sma |-> NewSma, usage |-> EmptyMap, hist |-> EmptyMap,
     info |-> NewInfo, lastIndex |-> [data |-> 0, driver |-> 0]]

PureInit ==
    /\ Constructed
    /\ checkInterval = 1
    /\ config \in SpecConfigs
    /\ probe \in {Probe("mem", cfg, coll) : cfg \in MemConfigs, coll \in MemMaps}
            \cup {Probe("usage", cfg, coll) : cfg \in UsageConfigs, coll \in UsageMaps}
            \cup {Probe("sma", cfg, EmptyMap) : cfg \in SmaConfigs}
            \cup {Probe("ctor", args, EmptyMap) : args \in CtorArgs}
            \cup {Probe("meta", text, EmptyMap) : text \in MetaTexts}

\* this._isMemOverloaded(coll) of a monitor constructed with mem = cfg
CheckMemOverloaded ==
    /\ probe.fn = "mem" /\ ~probe.done
    /\ probe' = [probe EXCEPT !.done = TRUE,
                              !.result = isMemOverloaded(probe.cfg, probe.coll)]
    /\ UNCHANGED <<checkInterval, config, lifeVars, metaVars, dataVars, last>>

\* usageOverloadedChecker(coll) of a monitor constructed with encoder or
\* decoder = cfg
CheckUsageOverloaded ==
    /\ probe.fn = "usage" /\ ~probe.done
    /\ probe' = [probe EXCEPT !.done = TRUE,
                              !.result = isUsageOverloaded(probe.cfg, probe.coll)]
    /\ UNCHANGED <<checkInterval, config, lifeVars, metaVars, dataVars, last>>

\* usageCalculator.getUsage(gpuCoresUsage)
SmaGetUsage(gpuCoresUsage) ==
    /\ probe.fn = "sma"
    /\ \A k \in DOMAIN gpuCoresUsage :
          k \in DOMAIN probe.hist => Len(probe.hist[k]) < MaxObs
    /\ LET r == getUsage(probe.sma, probe.cfg.periodPoints, gpuCoresUsage)
       IN probe' = [probe EXCEPT
                       !.done = TRUE,
                       !.coll = gpuCoresUsage,
                       !.sma = r.sma,
                       !.usage = r.usage,
                       !.hist = [k \in DOMAIN probe.hist \cup DOMAIN gpuCoresUsage |->
                                    IF k \notin DOMAIN gpuCoresUsage THEN probe.hist[k]
                                    ELSE IF k \in DOMAIN probe.hist
                                      THEN Append(probe.hist[k], gpuCoresUsage[k])
                                    ELSE <<gpuCoresUsage[k]>>]]
    /\ UNCHANGED <<checkInterval, config, lifeVars, metaVars, dataVars, last>>

\* new NvidiaGpuMonitor(args): result tells whether it threw its TypeError
Construct ==
    /\ probe.fn = "ctor" /\ ~probe.done
    /\ probe' = [probe EXCEPT !.done = TRUE,
                              !.result = constructorThrows(probe.cfg)]
    /\ UNCHANGED <<checkInterval, config, lifeVars, metaVars, dataVars, last>>

\* nvidiaGpuInfo.parseGpuMetaData() whose command prints the text probe.cfg
ResolveMetaData ==
    /\ probe.fn = "meta"
    /\ LET r == parseGpuMetaData(probe.cfg, probe.info, probe.lastIndex)
       IN probe' = [probe EXCEPT !.done = TRUE,
                                 !.info = r.info,
                                 !.lastIndex = r.lastIndex]
    /\ UNCHANGED <<checkInterval, config, lifeVars, metaVars, dataVars, last>>

PureNext ==
    \/ Construct
    \/ ResolveMetaData
    \/ CheckMemOverloaded
    \/ CheckUsageOverloaded
    \/ \E gpuCoresUsage \in RawMaps : SmaGetUsage(gpuCoresUsage)

PureSpec == PureInit /\ [][PureNext]_vars

\* ================================================================ claims
Emits(e) == \E i \in 1..Len(last.emitted) : last.emitted[i] = e
PendingRestarts == strayRestarts + (IF restartTimer.st = "pending" THEN 1 ELSE 0)
StartInFlight == commandRunned \/ microStarts > 0
monitorVars == <<checkInterval, config, lifeVars, metaVars, dataVars>>

\* C1: start() called while status is Started or Stopping fails with
\* 'NvidiaGpuMonitor service is already started', does not call
\* parseGpuMetaData(), spawns no child and leaves the status (and everything
\* else) unchanged.
C1_StartRejectedUnlessStopped ==
    [][(last'.op = "start" /\ status \in {STATUS_STARTED, STATUS_STOPPING}) =>
          /\ last'.threw = ERR_ALREADY_STARTED
          /\ ~last'.parse
          /\ last'.spawned = 0
          /\ status' = status
          /\ UNCHANGED monitorVars]_vars

C1_Witness ==
    /\ last.op = "start" /\ last.pre = STATUS_STOPPING
    /\ last.threw = ERR_ALREADY_STARTED
    /\ status = STATUS_STOPPING

\* C2 (as claimed): stop() on a started monitor whose watcher is alive and
\* that has no pending restart cancels the watchdog timer, sets healthy to
\* false, sets the status to Stopping, sends kill to the watcher exactly once
\* and does not emit 'stopped'.
C2_StopKillsLiveWatcher ==
    [][(/\ last'.op = "stop"
        /\ status = STATUS_STARTED
        /\ dmonWatcher # 0 /\ children[dmonWatcher].st = "alive"
        /\ PendingRestarts = 0) =>
          /\ healthyTimer'.st # "pending"
          /\ healthy' = FALSE
          /\ status' = STATUS_STOPPING
          /\ last'.kills = 1
          /\ children'[dmonWatcher].st = "killed"
          /\ last'.emitted = <<>>]_vars

\* C3: when a child exits while the status is Stopping, the status becomes
\* Stopped, exactly one 'stopped' and nothing else is emitted, and no restart
\* is scheduled.
C3_ExitWhileStoppingFinalizes ==
    [][(last'.op = "exit" /\ status = STATUS_STOPPING) =>
          /\ status' = STATUS_STOPPED
          /\ last'.emitted = <<"stopped">>
          /\ restartTimer' = restartTimer
          /\ strayRestarts' = strayRestarts
          /\ last'.spawned = 0]_vars

C3_Witness ==
    /\ last.op = "exit" /\ last.pre = STATUS_STOPPING
    /\ status = STATUS_STOPPED
    /\ last.emitted = <<"stopped">>

\* C4: when a child exits while the status is Started, exactly one restart is
\* scheduled with the delay of 1000 ms, 'error' and then 'unhealthy' are
\* emitted (once each, and no 'stopped'), healthy becomes false and the status
\* stays Started.
C4_ExitWhileStartedRestarts ==
    [][(last'.op = "exit" /\ status = STATUS_STARTED) =>
          /\ restartTimer' = [st |-> "pending", ms |-> 1000]
          /\ PendingRestarts' = PendingRestarts + 1
          /\ last'.emitted = <<"error", "unhealthy">>
          /\ healthy' = FALSE
          /\ status' = STATUS_STARTED]_vars

C4_Witness ==
    /\ last.op = "exit" /\ last.pre = STATUS_STARTED
    /\ status = STATUS_STARTED
    /\ restartTimer.st = "pending"
    /\ last.emitted = <<"error", "unhealthy">>

\* C5 (as claimed): stop() called while a restart is scheduled and no child is
\* running cancels the restart timer, sets the status to Stopped, emits
\* 'stopped' exactly once and sends no kill; no restart stays scheduled, so
\* the watcher is not respawned afterwards.
C5_StopCancelsScheduledRestart ==
    [][(/\ last'.op = "stop"
        /\ status # STATUS_STOPPED
        /\ restartTimer.st = "pending"
        /\ Live = {}) =>
          /\ restartTimer'.st # "pending"
          /\ status' = STATUS_STOPPED
          /\ last'.emitted = <<"stopped">>
          /\ last'.kills = 0
          /\ PendingRestarts' = 0]_vars

C7_SecondStopHasNoEffect ==
    [][(last'.op = "stop" /\ status = STATUS_STOPPING) =>
          /\ last'.threw = ""
          /\ last'.kills = 0
          /\ last'.emitted = <<>>
          /\ UNCHANGED monitorVars]_vars

\* C8 (as claimed): every stop() called on a monitor that is not stopped is
\* eventually followed by the status Stopped together with a 'stopped' event.
C8_StopLeadsToStopped ==
    (last.op = "stop" /\ last.pre # STATUS_STOPPED)
        ~> (status = STATUS_STOPPED /\ Emits("stopped"))

\* C9 (as claimed): once stop() was called and until the next start(), no
\* watchdog or restart timer fires, healthy stays false and neither 'healthy'
\* nor 'unhealthy' is emitted.
C9_QuietAfterStop ==
    [][(/\ status \in {STATUS_STOPPING, STATUS_STOPPED}
        /\ ~StartInFlight
        /\ last'.op \notin {"start", "startResolve", "startReject", "startMicro"}) =>
          /\ last'.op \notin {"watchdog", "restart"}
          /\ healthy' = FALSE
          /\ \A i \in 1..Len(last'.emitted) :
                last'.emitted[i] \notin {"healthy", "unhealthy"}]_vars

\* C10 (as claimed): after a successful start(), unless a sample is accepted,
\* 'unhealthy' is emitted and isWatchHealthy() becomes false; an accepted
\* sample that finds the monitor unhealthy emits 'healthy' exactly once.
C10_SilenceLeadsToUnhealthy ==
    /\ (last.op \in {"startResolve", "startMicro"})
          ~> (~isWatchHealthy.value \/ (last.op = "line" /\ last.accepted))
    /\ [][(last'.op = "line" /\ last'.accepted /\ ~healthy) =>
             (last'.emitted = <<"healthy">> /\ healthy')]_vars

\* C11: 'healthy' is emitted exactly by a line handler that accepts a sample
\* while healthy is false, once, and healthy is then true; an accepted sample
\* that finds healthy true emits nothing, and no other handler emits 'healthy'.
C11_HealthyOnEdgeOnly ==
    [][/\ (\E i \in 1..Len(last'.emitted) : last'.emitted[i] = "healthy")
             <=> (last'.op = "line" /\ last'.accepted /\ ~healthy)
       /\ (last'.op = "line" /\ last'.accepted /\ ~healthy)
             => (last'.emitted = <<"healthy">> /\ healthy')
       /\ (last'.op = "line" /\ last'.accepted /\ healthy)
             => (last'.emitted = <<>> /\ healthy')]_vars

C11_Witness ==
    /\ last.op = "line" /\ last.accepted
    /\ last.emitted = <<"healthy">>
    /\ healthy

\* C12: the handler of a child's 'error' event sets healthy to false, emits
\* 'error' and then 'unhealthy', schedules no restart, spawns nothing and
\* leaves the status unchanged.
C12_SpawnErrorDoesNotRestart ==
    [][(last'.op = "error") =>
          /\ healthy' = FALSE
          /\ last'.emitted = <<"error", "unhealthy">>
          /\ restartTimer' = restartTimer
          /\ strayRestarts' = strayRestarts
          /\ last'.spawned = 0
          /\ status' = status]_vars

C12_Witness ==
    /\ last.op = "error" /\ last.pre = STATUS_STARTED
    /\ status = STATUS_STARTED
    /\ ~healthy
    /\ restartTimer.st = "undefined"
    /\ last.emitted = <<"error", "unhealthy">>

\* C13: each of getGpuStatistic(), isOverloaded(), isWatchHealthy(),
\* getGpuDriverVersion() and getGpuProductsName() throws 'NvidiaGpuMonitor
\* service is not started' exactly when the status is Stopped (never while it
\* is Started or Stopping), and a query changes no state of the monitor.
C13_QueriesThrowIffStopped ==
    [][(last'.op \in Queries) =>
          /\ (last'.threw = ERR_NOT_STARTED) <=> (status = STATUS_STOPPED)
          /\ UNCHANGED monitorVars]_vars

C13_Witness ==
    /\ last.op = "getGpuStatistic" /\ last.pre = STATUS_STOPPED
    /\ last.threw = ERR_NOT_STARTED
    /\ status = STATUS_STOPPED
    /\ coreNumbers # {}

\* C14 (as claimed): a start() issued from Stopped runs the watcher only after
\* the metadata resolution has completed; it then spawns exactly one watcher,
\* sets healthy to true and the status to Started, and resolves with the
\* device ids of the metadata.
C14_StartAwaitsMetadataThenSpawns ==
    [][(last'.op \in {"startResolve", "startMicro"}) =>
          /\ ~commandRunned'
          /\ last'.spawned = 1
          /\ healthy' /\ status' = STATUS_STARTED
          /\ \E out \in MetaOutputs : getCoreNumbers' = out.cores]_vars

RECURSIVE SeqSum(_)
SeqSum(q) == IF q = <<>> THEN 0 ELSE Head(q) + SeqSum(Tail(q))
LastN(q, n) == SubSeq(q, Len(q) - n + 1, Len(q))

\* C15: for every period N > 1 and every device key, getUsage returns 100
\* for the key's first N-1 observations and, from the Nth observation on, the
\* floor of the mean of the key's last N raw values.
C15_SmootherSentinelThenFloorAverage ==
    (probe.fn = "sma") =>
        \A k \in DOMAIN probe.coll :
            /\ k \in DOMAIN probe.usage
            /\ LET h == probe.hist[k]
                   N == probe.cfg.periodPoints
               IN probe.usage[k] = IF Len(h) < N THEN 100
                                   ELSE SeqSum(LastN(h, N)) \div N

\* The series 10, 10, 70, 70 with N = 3 gives 50 on the 4th observation.
C15_Witness ==
    /\ probe.fn = "sma" /\ probe.cfg.periodPoints = 3
    /\ 0 \in DOMAIN probe.coll
    /\ probe.hist[0] = <<10, 10, 70, 70>>
    /\ probe.usage[0] = 50

\* C16: under the fixed memory policy the memory predicate is true iff some
\* device of the memory map has free < 0, total < 0 or free < minFree.
C16_FixedMemoryPolicy ==
    (probe.fn = "mem" /\ probe.done /\ probe.cfg.thresholdType = "fixed") =>
        (probe.result <=>
            \E k \in DOMAIN probe.coll :
                LET m == probe.coll[k]
                IN \/ (m.free.t = "number" /\ m.free.v < 0)
                   \/ (m.total.t = "number" /\ m.total.v < 0)
                   \/ (m.free.t = "number" /\ m.free.v < probe.cfg.minFree))

\* free = 5, total = 10, minFree = 6 is overloaded.
C16_Witness ==
    /\ probe.fn = "mem" /\ probe.done /\ probe.cfg.thresholdType = "fixed"
    /\ probe.cfg.minFree = 6
    /\ DOMAIN probe.coll = {0}
    /\ probe.coll[0] = [free |-> JsNum(5), total |-> JsNum(10)]
    /\ probe.result

\* C17: under the rate memory policy the memory predicate is true iff some
\* device of the memory map has free < 0, total < 0 or a used share
\* (total - free) / total above highWatermark (kept in percent).
C17_RateMemoryPolicy ==
    (probe.fn = "mem" /\ probe.done /\ probe.cfg.thresholdType = "rate") =>
        (probe.result <=>
            \E k \in DOMAIN probe.coll :
                LET m == probe.coll[k]
                IN \/ (m.free.t = "number" /\ m.free.v < 0)
                   \/ (m.total.t = "number" /\ m.total.v < 0)
                   \/ /\ m.free.t = "number" /\ m.total.t = "number"
                      /\ m.total.v > 0
                      /\ (m.total.v - m.free.v) * 100
                            > probe.cfg.highWatermark * m.total.v)

\* A used share exactly at the watermark is not overloaded.
C17_Witness ==
    /\ probe.fn = "mem" /\ probe.done /\ probe.cfg.thresholdType = "rate"
    /\ probe.cfg.highWatermark = 50
    /\ DOMAIN probe.coll = {0}
    /\ probe.coll[0] = [free |-> JsNum(5), total |-> JsNum(10)]
    /\ ~probe.result

\* C18 (as claimed): under the 'none' memory policy the memory predicate
\* evaluated at a sweep commit is true iff some device's memory sample has
\* free < 0 or total < 0.
C18_NoneMemoryPolicyDetectsSentinel ==
    [][(/\ last'.op = "line" /\ last'.sweeps > 0
        /\ config.mem.thresholdType = "none") =>
          (last'.evals[1].v <=>
              \E k \in DOMAIN gpuCoresMem' :
                  \/ JsLess(gpuCoresMem'[k].free, 0)
                  \/ JsLess(gpuCoresMem'[k].total, 0))]_vars

\* C19: the utilization predicate of the encoder and of the decoder is, under
\* the rate policy, true iff some device's smoothed percentage is strictly
\* above the watermark (kept in percent), and under 'none' always false.
C19_UtilizationPolicy ==
    (probe.fn = "usage" /\ probe.done) =>
        (probe.result <=>
            /\ probe.cfg.thresholdType = "rate"
            /\ \E k \in DOMAIN probe.coll :
                  probe.coll[k] > probe.cfg.highWatermark)

C19_Witness ==
    /\ probe.fn = "usage" /\ probe.done /\ probe.cfg.thresholdType = "rate"
    /\ DOMAIN probe.coll = {0, 1}
    /\ probe.coll[0] = 50 /\ probe.coll[1] = 51
    /\ probe.result

\* C20: at every sweep commit the published flag is memoryOverloaded OR
\* encoderOverloaded OR decoderOverloaded, on the memory map and the smoothed
\* maps of the commit, evaluated in this order and no further than the first
\* predicate that is true.
C20_OverloadIsShortCircuitOr ==
    [][(last'.op = "line" /\ last'.sweeps > 0) =>
          LET m == isMemOverloaded(config.mem, gpuCoresMem')
              e == isUsageOverloaded(config.encoder, gpuEncodersUsage')
              d == isUsageOverloaded(config.decoder, gpuDecodersUsage')
              ev == last'.evals
          IN /\ isOverloaded' = (m \/ e \/ d)
             /\ ev[1] = Eval("mem", m)
             /\ Len(ev) = (IF m THEN 1 ELSE IF e THEN 2 ELSE 3)
             /\ Len(ev) >= 2 => ev[2] = Eval("encoder", e)
             /\ Len(ev) = 3 => ev[3] = Eval("decoder", d)]_vars

\* A commit where only the decoder is overloaded.
C20_Witness ==
    /\ last.op = "line" /\ last.sweeps > 0
    /\ last.evals = <<Eval("mem", FALSE), Eval("encoder", FALSE), Eval("decoder", TRUE)>>
    /\ isOverloaded

\* The devices of the cycle once the accepted line of device core is counted:
\* a device that repeats begins a new cycle.
CycleWith(core) ==
    IF core \in tmpCoreNumbers THEN {core} ELSE tmpCoreNumbers \cup {core}

\* C21: when the number of distinct devices accepted in the current cycle
\* reaches the metadata device count, the cycle's device set becomes the
\* current device set, smoothing and overload evaluation run once for the
\* sweep (the usage maps hold exactly the cycle's devices), and the per-cycle
\* device set and the raw utilization maps are emptied.
C21_FullSweepCommitsOnce ==
    [][(/\ last'.op = "line" /\ last'.accepted
        /\ Cardinality(CycleWith(last'.core)) = Cardinality(infoCoreNumbers)) =>
          /\ coreNumbers' = CycleWith(last'.core)
          /\ last'.sweeps = (IF last'.core \in tmpCoreNumbers THEN 2 ELSE 1)
          /\ DOMAIN gpuEncodersUsage' = CycleWith(last'.core)
          /\ DOMAIN gpuDecodersUsage' = CycleWith(last'.core)
          /\ tmpCoreNumbers' = {}
          /\ gpuEncodersUtilization' = EmptyMap
          /\ gpuDecodersUtilization' = EmptyMap]_vars

C21_Witness ==
    /\ last.op = "line" /\ last.accepted /\ last.sweeps = 1
    /\ coreNumbers = {0, 1}
    /\ tmpCoreNumbers = {}
    /\ DOMAIN gpuEncodersUsage = {0, 1}

\* C22 (as claimed): at a sweep boundary where the committed device set
\* differs in size from the metadata's device set, the line handler asks for
\* the metadata to be resolved again.
C22_SizeMismatchReResolves ==
    [][(/\ last'.op = "line" /\ last'.sweeps > 0
        /\ Cardinality(coreNumbers') # Cardinality(infoCoreNumbers)) =>
          last'.parse]_vars

\* C23 (as claimed): while the status is not Stopped, getGpuStatistic() has
\* one entry for each device of the current device set, and mem.free,
\* usage.enc and usage.dec of every entry are numbers.
C23_StatisticEntriesAreNumbers ==
    (status # STATUS_STOPPED) =>
        /\ DOMAIN getGpuStatistic = coreNumbers
        /\ \A coreNumber \in coreNumbers :
              /\ coreNumber \in DOMAIN gpuCoresMem
              /\ coreNumber \in DOMAIN gpuEncodersUsage
              /\ coreNumber \in DOMAIN gpuDecodersUsage
              /\ getGpuStatistic[coreNumber].free.t = "number"
              /\ getGpuStatistic[coreNumber].enc.t = "number"
              /\ getGpuStatistic[coreNumber].dec.t = "number"

\* C28 (as claimed): when an accepted line's device is already in the current
\* cycle's set, the devices accumulated so far become the current device set
\* and the overload evaluation runs once on that cycle's own samples: the
\* memory predicate sees the memory map as it was before the repeated line,
\* whose samples belong only to the new cycle, which holds just that device.
C28_RepeatCommitsPreviousCycle ==
    [][(/\ last'.op = "line" /\ last'.accepted
        /\ last'.core \in tmpCoreNumbers
        /\ Cardinality(infoCoreNumbers) > 1) =>
          /\ coreNumbers' = tmpCoreNumbers
          /\ last'.sweeps = 1
          /\ last'.evals[1] = Eval("mem", isMemOverloaded(config.mem, gpuCoresMem))
          /\ tmpCoreNumbers' = {last'.core}
          /\ DOMAIN gpuEncodersUtilization' = {last'.core}
          /\ DOMAIN gpuDecodersUtilization' = {last'.core}]_vars

\* C29 (as claimed): a matching line whose device is absent from the metadata
\* is dropped: it changes no memory or utilization sample and no device set,
\* and commits no sweep.
C29_UnknownDeviceIsDropped ==
    [][(/\ last'.op = "line" /\ last'.accepted
        /\ last'.core \notin infoCoreNumbers) =>
          /\ UNCHANGED <<gpuCoresMem, gpuEncodersUtilization, gpuDecodersUtilization,
                         tmpCoreNumbers, coreNumbers>>
          /\ last'.sweeps = 0]_vars

\* C25 (as claimed): the status changes only from Stopped to Started when a
\* start() completes, from Started to Stopping by a stop() with a live child,
\* from Started to Stopped by a stop() while a restart is pending and no child
\* runs, and from Stopping to Stopped when a child's exit is handled; and
\* Stopped is never entered while a child is alive.
C25_StatusTransitions ==
    [][(status' # status) =>
          /\ \/ /\ status = STATUS_STOPPED /\ status' = STATUS_STARTED
                /\ last'.op \in {"startResolve", "startMicro"}
             \/ /\ status = STATUS_STARTED /\ status' = STATUS_STOPPING
                /\ last'.op = "stop"
                /\ dmonWatcher # 0 /\ children[dmonWatcher].st = "alive"
             \/ /\ status = STATUS_STARTED /\ status' = STATUS_STOPPED
                /\ last'.op = "stop"
                /\ restartTimer.st = "pending"
                /\ \A c \in Slots : ~Running(c)
             \/ /\ status = STATUS_STOPPING /\ status' = STATUS_STOPPED
                /\ last'.op = "exit"
          /\ (status' = STATUS_STOPPED) =>
                \A c \in Slots : children'[c].st \notin {"alive", "killed"}]_vars

\* C26: the handler of a line that holds no record leaves a watchdog timer
\* armed anew with 2 x checkIntervalSec x 1000 ms, keeps healthy, both device
\* sets and every sample map as they were, commits no sweep and emits nothing.
C26_NonMatchingLineOnlyRearms ==
    [][(last'.op = "line" /\ ~last'.hasRecord) =>
          /\ healthyTimer' = [st |-> "pending", ms |-> 2 * checkInterval * 1000]
          /\ healthy' = healthy
          /\ UNCHANGED <<coreNumbers, tmpCoreNumbers, gpuCoresMem,
                         gpuEncodersUtilization, gpuDecodersUtilization,
                         gpuEncodersUsage, gpuDecodersUsage, isOverloaded>>
          /\ last'.sweeps = 0
          /\ last'.emitted = <<>>]_vars

C26_Witness ==
    /\ last.op = "line" /\ ~last.hasRecord
    /\ checkInterval = 2
    /\ healthyTimer = [st |-> "pending", ms |-> 4000]
    /\ healthy

\* C27 (as claimed): the healthy flag and the watchdog timer change only when
\* an accepted sample arrives or the timer expires, and a line re-arms the
\* timer only if its sample is accepted.
C27_WatchdogChangesOnlyOnSampleOrExpiry ==
    [][/\ (healthy' # healthy \/ healthyTimer' # healthyTimer) =>
             \/ (last'.op = "line" /\ last'.accepted)
             \/ last'.op = "watchdog"
       /\ (last'.op = "line" /\ healthyTimer'.st = "pending") => last'.accepted]_vars

\* C27 (amended): the healthy flag and the watchdog timer change only in the
\* line handler, on timer expiry, when a start() completes, in stop() and in
\* the handlers of a child's exit and error. healthy becomes true only by an
\* accepted sample or a completed start(), and false only by expiry, stop(),
\* exit or error. Every line, matched or not, leaves the timer armed anew,
\* and nothing but the line handler arms it.
C27_WatchdogStateFrame ==
    [][/\ (healthy' # healthy \/ healthyTimer' # healthyTimer) =>
             last'.op \in {"line", "watchdog", "startResolve", "startMicro",
                           "stop", "exit", "error"}
       /\ (healthy' /\ ~healthy) =>
             \/ (last'.op = "line" /\ last'.accepted)
             \/ last'.op \in {"startResolve", "startMicro"}
       /\ (~healthy' /\ healthy) => last'.op \in {"watchdog", "stop", "exit", "error"}
       /\ (last'.op = "line") =>
             healthyTimer' = [st |-> "pending", ms |-> 2 * checkInterval * 1000]
       /\ (healthyTimer'.st = "pending" /\ healthyTimer' # healthyTimer) =>
             last'.op = "line"]_vars

\* A line without a record re-armed the timer of an unhealthy monitor.
C27_Witness ==
    /\ last.op = "line" /\ ~last.accepted
    /\ status = STATUS_STARTED
    /\ ~healthy
    /\ healthyTimer.st = "pending"

\* C30: the cursor of STAT_GRAB_PATTERN is 0 when the handling of a line
\* begins and when it ends, after a match as after a failure, so a line is
\* accepted exactly if it holds a record, whatever lines came before.
C30_PatternCursorIsReset ==
    [][(last'.op = "line") =>
          /\ statLastIndex = 0
          /\ statLastIndex' = 0
          /\ last'.accepted <=> last'.hasRecord]_vars

\* A record accepted right after other records (the smoother's window of two
\* is full).
C30_Witness ==
    /\ last.op = "line" /\ last.accepted
    /\ statLastIndex = 0
    /\ 0 \in DOMAIN gpuEncodersUsage
    /\ gpuEncodersUsage[0] = 40

\* The invalid configurations the claim lists.
WatermarkOutside(hw) == ~(hw.t = "number" /\ 0 < hw.v /\ hw.v < 100)
MemPolicyInvalid(mem) ==
    \/ ~mem.obj
    \/ mem.thresholdType \notin {"none", "fixed", "rate"}
    \/ mem.thresholdType = "fixed" /\ ~(mem.minFree.t = "number" /\ mem.minFree.v > 0)
    \/ mem.thresholdType = "rate" /\ WatermarkOutside(mem.highWatermark)
UsagePolicyInvalid(cfg) ==
    \/ ~cfg.obj
    \/ cfg.calculationAlgo \notin {"sma", "last_value"}
    \/ cfg.calculationAlgo = "sma"
          /\ ~(cfg.periodPoints.t = "number" /\ cfg.periodPoints.v > 1)
    \/ cfg.thresholdType \notin {"none", "rate"}
    \/ cfg.thresholdType = "rate" /\ WatermarkOutside(cfg.highWatermark)
PolicyInvalid(args) ==
    \/ MemPolicyInvalid(args.mem)
    \/ UsagePolicyInvalid(args.encoder)
    \/ UsagePolicyInvalid(args.decoder)

\* C24 (as claimed): construction throws a TypeError exactly when the
\* policy configuration is invalid in one of the listed ways.
C24_ThrowsIffPolicyInvalid ==
    (probe.fn = "ctor" /\ probe.done) =>
        (probe.result <=> PolicyInvalid(probe.cfg))

\* C24 (amended): construction throws a TypeError exactly when the policy
\* configuration is invalid in one of the listed ways, or nvidiaSmiPath is
\* not a string, or checkIntervalSec is not an integer of at least 1.
C24_ThrowsIffArgumentsInvalid ==
    (probe.fn = "ctor" /\ probe.done) =>
        (probe.result <=>
            \/ PolicyInvalid(probe.cfg)
            \/ ~probe.cfg.nvidiaSmiPathIsString
            \/ ~(probe.cfg.checkIntervalSec.t = "number"
                 /\ probe.cfg.checkIntervalSec.v >= 1))

\* An encoder smoothed over one point is refused.
C24_Witness ==
    /\ probe.fn = "ctor" /\ probe.done
    /\ probe.cfg.nvidiaSmiPathIsString
    /\ probe.cfg.checkIntervalSec = JsNum(1)
    /\ ~MemPolicyInvalid(probe.cfg.mem)
    /\ probe.cfg.encoder.calculationAlgo = "sma"
    /\ probe.cfg.encoder.periodPoints = JsNum(1)
    /\ probe.cfg.encoder.thresholdType = "none"
    /\ probe.result

\* C31: after any sequence of getUsage calls, every device key of the
\* smoother has a running sum equal to the sum of its stored window, and a
\* window of at most N - 1 values.
C31_SumMatchesWindow ==
    (probe.fn = "sma") =>
        /\ DOMAIN probe.sma.sum = DOMAIN probe.sma.collection
        /\ \A k \in DOMAIN probe.sma.collection :
              /\ probe.sma.sum[k] = SeqSum(probe.sma.collection[k])
              /\ Len(probe.sma.collection[k]) <= probe.cfg.periodPoints - 1

\* After 10, 70, 70, 10 with N = 3 the window holds 70, 10 and the sum is 80.
C31_Witness ==
    /\ probe.fn = "sma" /\ probe.cfg.periodPoints = 3
    /\ 1 \in DOMAIN probe.hist
    /\ probe.hist[1] = <<10, 70, 70, 10>>
    /\ probe.sma.collection[1] = <<70, 10>>
    /\ probe.sma.sum[1] = 80

\* C32: getUsage returns a mapping over exactly the keys of its input, and
\* leaves the window and the running sum of every other key as they were.
C32_UsageKeysAreInputKeys ==
    [][(probe.fn = "sma" /\ probe'.fn = "sma") =>
          /\ DOMAIN probe'.usage = DOMAIN probe'.coll
          /\ DOMAIN probe'.sma.collection =
                DOMAIN probe.sma.collection \cup DOMAIN probe'.coll
          /\ \A k \in DOMAIN probe.sma.collection \ DOMAIN probe'.coll :
                /\ probe'.sma.collection[k] = probe.sma.collection[k]
                /\ probe'.sma.sum[k] = probe.sma.sum[k]]_vars

\* An empty input after an observation of device 0: nothing is returned and
\* the window of device 0 is kept.
C32_Witness ==
    /\ probe.fn = "sma" /\ probe.done
    /\ probe.coll = EmptyMap
    /\ probe.usage = EmptyMap
    /\ 0 \in DOMAIN probe.sma.collection
    /\ probe.sma.collection[0] = <<70>>

\* C33: a parseGpuMetaData() called while a command is awaited returns at
\* once, runs no command and leaves the metadata as it is; the flag is
\* cleared when the command finishes, in success as in failure; a failure is
\* rethrown and leaves the metadata as it is; and a call made while no
\* command is awaited runs the command.
C33_InFlightResolutionIsNotDuplicated ==
    [][/\ (last'.op = "start" /\ last'.parse /\ commandRunned) =>
             /\ commandRunned'
             /\ microStarts' = microStarts + 1
             /\ UNCHANGED metaVars
       /\ (last'.op = "start" /\ last'.parse /\ ~commandRunned) =>
             /\ commandRunned'
             /\ microStarts' = microStarts
       /\ (last'.op \in {"startResolve", "startReject"}) =>
             commandRunned /\ ~commandRunned'
       /\ (last'.op = "startReject") =>
             /\ last'.threw # ""
             /\ UNCHANGED metaVars]_vars

\* A second call returned at once while the first awaits its command.
C33_Witness ==
    /\ last.op = "start" /\ last.parse
    /\ commandRunned
    /\ microStarts = 1

\* C34 (as claimed): at most one watcher process spawned by the monitor runs
\* at any time.
C34_AtMostOneWatcher ==
    Cardinality({c \in Slots : Running(c)}) <= 1

\* C35 (as claimed): while the status is Stopped no watcher process runs, and
\* none is spawned but by the next start().
C35_StoppedMeansNoWatcher ==
    [][/\ (status' = STATUS_STOPPED) => \A c \in Slots : ~Running(c)'
       /\ (status = STATUS_STOPPED /\ last'.spawned > 0) =>
             last'.op \in {"startResolve", "startMicro"}]_vars

\* C36 (as claimed): when a start() completes isOverloaded is true, and it
\* stays true until a sweep is committed.
C36_OverloadedUntilFirstSweep ==
    [][/\ (last'.op \in {"startResolve", "startMicro"}) => isOverloaded'
       /\ (isOverloaded' # isOverloaded) => last'.sweeps > 0]_vars

\* C37 (as claimed): every parseGpuMetaData() after the first, run on the
\* same command output, leaves the driver version, the product names, the
\* total memory and the device set as the call before left them.
C37_ResolutionIsRepeatable ==
    [][(probe.fn = "meta" /\ probe.done /\ probe'.fn = "meta") =>
          probe'.info = probe.info]_vars

====
